---------------------------- MODULE Spec2Model ----------------------------
(***************************************************************************)
(* gbis_mat2hdf5 of src/mintpy/load_gbis.py as a state machine.            *)
(*                                                                         *)
(* Strings are sequences of atoms; the atoms " " and "_" are the only ones *)
(* that hold a blank or an underscore, so str.replace(' ', '_') and        *)
(* str.split() are computed on them.  Floats are [val |-> n] or NaN.       *)
(* The run is made with display=False (plotting is not modelled).          *)
(***************************************************************************)
EXTENDS Integers, Sequences, FiniteSets, TLC

VARIABLES mat,        \* the loaded .mat container (line 46), with its data files
          pc,         \* position in gbis_mat2hdf5
          err,        \* the exception that ended the run, or "none"
          num_file,   \* line 47
          mDict,      \* lines 53-68
          fwdCall,    \* the calls made to geod.fwd (line 62), as their arguments
          i,          \* loop index of line 75 (1-based here)
          out_files,  \* line 43, 87
          mask,       \* line 81
          grids,      \* lines 89-94: [data, model, residual]
          meta,       \* lines 97-105
          written,    \* the calls made to writefile.write (line 112)
          result      \* <<>> until the function returns, then <<out_files>>

vars == <<mat, pc, err, num_file, mDict, fwdCall, i, out_files, mask, grids,
          meta, written, result>>

-----------------------------------------------------------------------------
(* Bounds of the model *)

MaxFiles == 2     \* image records in the container (Spec)
MaxPar == 3       \* entries of optimalmodel / parName (Spec)
MaxMetaPar == 2   \* entries of optimalmodel / parName (SpecMeta)
MaxDim == 2       \* rows and columns of a mask (SpecGrid)

-----------------------------------------------------------------------------
(* Values *)

NaN == [nan |-> TRUE]
Num(n) == [val |-> n]
IsNaN(x) == "nan" \in DOMAIN x

Abs(n) == IF n < 0 THEN -n ELSE n
Sign(n) == IF n < 0 THEN -1 ELSE IF n > 0 THEN 1 ELSE 0

RECURSIVE Pow2(_)
Pow2(n) == IF n = 0 THEN 1 ELSE 2 * Pow2(n - 1)

RECURSIVE BitLen(_)
BitLen(n) == IF n = 0 THEN 0 ELSE 1 + BitLen(n \div 2)

\* dtype=np.float32: an integer is kept to 24 significant bits, round to
\* nearest, ties to even.
ToFloat32(n) ==
    LET a == Abs(n)
        sh == IF BitLen(a) > 24 THEN BitLen(a) - 24 ELSE 0
        q == a \div Pow2(sh)
        r == a % Pow2(sh)
        half == IF sh = 0 THEN 0 ELSE Pow2(sh - 1)
        up == sh > 0 /\ (r > half \/ (r = half /\ q % 2 = 1))
    IN  Sign(n) * (IF up THEN q + 1 ELSE q) * Pow2(sh)

\* scipy.io.loadmat(..., squeeze_me=True): a 1-element array comes back as the
\* element itself, any other 1-D array as an array.
SqueezeMe(s) == IF Len(s) = 1 THEN [scalar |-> s[1]] ELSE [array |-> s]
IsArray(v) == "array" \in DOMAIN v

\* s[0:n]  (SlicePadded: a variant that fills what is missing with 0)
SlicePadded(s, n) == [k \in 1..n |-> IF k <= Len(s) THEN s[k] ELSE 0]
Slice(s, n) == SubSeq(s, 1, IF n < Len(s) THEN n ELSE Len(s))

-----------------------------------------------------------------------------
(* Strings *)

\* str.replace(' ', '_')
Replace(s) == [k \in DOMAIN s |-> IF s[k] = " " THEN "_" ELSE s[k]]

RECURSIVE SkipBlanks(_)
SkipBlanks(s) ==
    IF s = <<>> THEN <<>>
    ELSE IF Head(s) = " " THEN SkipBlanks(Tail(s)) ELSE s

RECURSIVE TakeWord(_)
TakeWord(s) ==
    IF s = <<>> \/ Head(s) = " " THEN <<>>
    ELSE <<Head(s)>> \o TakeWord(Tail(s))

\* str.split(): the whitespace-delimited tokens; only its length and first
\* element are used.
RECURSIVE Split(_)
Split(s) ==
    LET t == SkipBlanks(s)
        w == TakeWord(t)
    IN  IF t = <<>> THEN <<>>
        ELSE <<w>> \o Split(SubSeq(t, Len(w) + 1, Len(t)))

-----------------------------------------------------------------------------
(* Dictionaries: functions from keys to values *)

EmptyDict == [k \in {} |-> NaN]
Put(d, k, v) == [x \in (DOMAIN d) \cup {k} |-> IF x = k THEN v ELSE d[x]]
Pop(d, k) == [x \in (DOMAIN d) \ {k} |-> d[x]]

\* lines 54-56: for i in range(len(parValue)): mDict[key] = parValue[i]
RECURSIVE ParamDict(_, _, _)
ParamDict(parName, parValue, n) ==
    IF n = 0 THEN EmptyDict
    ELSE Put(ParamDict(parName, parValue, n - 1),
             Replace(parName[n]), [num |-> parValue[n]])

\* lines 104-105: for key, value in mDict.items(): meta[key] = value
\* (UpdateWrong: a variant that keeps the value meta already holds)
UpdateWrong(m, d) ==
    [x \in (DOMAIN m) \cup (DOMAIN d) |-> IF x \in DOMAIN m THEN m[x] ELSE d[x]]
Update(m, d) ==
    [x \in (DOMAIN m) \cup (DOMAIN d) |-> IF x \in DOMAIN d THEN d[x] ELSE m[x]]

-----------------------------------------------------------------------------
(* Grids: sequences of rows *)

Positions(m) == (1..Len(m)) \X (1..Len(m[1]))
NonZero(m) == {p \in Positions(m) : m[p[1]][p[2]] # 0}
CountNonzero(m) == Cardinality(NonZero(m))

\* mask.shape after squeeze_me=True: the dimensions of size 1 are dropped.
SqueezedShape(m) == SelectSeq(<<Len(m), Len(m[1])>>, LAMBDA d : d # 1)

\* np.zeros((length, width), dtype=np.float32) * np.nan
NanGrid(length, width) == [r \in 1..length |-> [c \in 1..width |-> NaN]]

\* The place of (r, c) among the selected cells of a boolean index: numpy
\* walks the index in C (row-major) order.  (RankColumnMajor: a variant
\* that walks it in Fortran order)
RankColumnMajor(m, r, c) ==
    Cardinality({p \in NonZero(m) : p[2] < c \/ (p[2] = c /\ p[1] <= r)})
Rank(m, r, c) ==
    Cardinality({p \in NonZero(m) : p[1] < r \/ (p[1] = r /\ p[2] <= c)})

\* grid[mask != 0] = v, v as loadmat returned it.  A scalar and a 1-element
\* array are broadcast; an array of any other length must have as many
\* elements as cells are selected, or numpy raises ValueError.
AssignMasked(grid, m, v) ==
    LET n == IF IsArray(v) THEN Len(v.array) ELSE 1
        at(k) == IF ~IsArray(v) THEN v.scalar
                 ELSE IF n = 1 THEN v.array[1] ELSE v.array[k]
    IN  IF n # 1 /\ n # CountNonzero(m)
        THEN [ok |-> FALSE]
        ELSE [ok |-> TRUE,
              grid |-> [r \in DOMAIN grid |-> [c \in DOMAIN grid[r] |->
                          IF m[r][c] # 0
                          THEN Num(ToFloat32(at(Rank(m, r, c))))
                          ELSE grid[r][c]]]]

-----------------------------------------------------------------------------
(* Model location, lines 58-68 *)

\* mX/mY on numpy float64: division by zero gives +-inf or nan with a
\* warning, no exception (a NaN azimuth is passed on to geod.fwd).  The
\* quotients that occur are whole numbers.
Divide(x, y) ==
    IF y = 0 THEN (IF x = 0 THEN NaN ELSE [inf |-> Sign(x)])
    ELSE [val |-> x \div y]

\* np.arctan(q) * 180 / np.pi, in degrees, for q in {-inf, -1, 0, 1, inf, nan}
ArctanDeg(q) ==
    IF IsNaN(q) THEN NaN
    ELSE IF "inf" \in DOMAIN q THEN Num(90 * q.inf)
    ELSE Num(45 * q.val)

\* the az= argument of line 63
Azimuth(mX, mY) == ArctanDeg(Divide(mX, mY))

\* the square of the dist= argument of line 64, (mX**2 + mY**2)**0.5
DistSquared(mX, mY) == mX * mX + mY * mY

\* geod.fwd(lon, lat, az, dist)[0:2]: the destination, named by the call
FwdLon(call) == [fwd |-> "lon", of |-> call]
FwdLat(call) == [fwd |-> "lat", of |-> call]

-----------------------------------------------------------------------------
(* File names and metadata keys *)

\* os.path.join(out_dir, '{}.h5'.format(insarPlot.name))
OutFile(name) == <<"out_dir", "/">> \o name \o <<".h5">>

KeyFieldnames == <<"_fieldnames">>
KeyUnit == <<"UNIT">>
KeyFileType == <<"FILE", "_", "TYPE">>
KeyProcessor == <<"PROCESSOR">>
KeyMinHeight == <<"MODEL", "_", "MIN", "_", "HEIGHT">>

\* lines 99-101  (FixedTagsKeepFile: a variant that sets a tag only when the
\* file metadata has none)
FixedTagsKeepFile(m) ==
    LET d == [k \in {KeyUnit, KeyFileType, KeyProcessor} |->
                IF k = KeyUnit THEN [str |-> "m"]
                ELSE IF k = KeyFileType THEN [str |-> "displacement"]
                ELSE [str |-> "isce"]]
    IN  [x \in (DOMAIN m) \cup (DOMAIN d) |-> IF x \in DOMAIN m THEN m[x] ELSE d[x]]
FixedTags(m) ==
    Put(Put(Put(m, KeyUnit, [str |-> "m"]),
            KeyFileType, [str |-> "displacement"]),
        KeyProcessor, [str |-> "isce"])

\* lines 102-103
MinHeightTag(m, insarPlot) ==
    IF "minHeight" \in DOMAIN insarPlot
    THEN Put(m, KeyMinHeight, [num |-> insarPlot.minHeight])
    ELSE m

-----------------------------------------------------------------------------
(* gbis_mat2hdf5, lines 40-128 *)

\* An uncaught exception leaves gbis_mat2hdf5 and main (lines 132-137):
\* nothing is returned and nothing more runs.  (RaiseAndGoOn: a variant that
\* swallows the exception and goes on with the loop)
RaiseAndGoOn(e) == err' = e /\ pc' = "loop"
Raise(e) == err' = e /\ pc' = "failed"

\* lines 46-48.  len(mat['insar']) of a single record, which squeeze_me
\* returns as the mat_struct itself, is a TypeError.
Load ==
    /\ pc = "start"
    /\ LET insar == SqueezeMe(mat.insar)
       IN  IF IsArray(insar)
           THEN /\ num_file' = Len(insar.array)
                /\ pc' = "params"
                /\ err' = err
           ELSE /\ Raise("TypeError")
                /\ num_file' = num_file
    /\ UNCHANGED <<mat, mDict, fwdCall, i, out_files, mask, grids, meta,
                   written, result>>

\* lines 50-56.  len(parValue) of a single value, which squeeze_me returns as
\* a float, is a TypeError.
Params ==
    /\ pc = "params"
    /\ LET parValue == SqueezeMe(mat.invResults.optimalmodel)
           parName == mat.invResults.model.parName
       IN  IF IsArray(parValue)
           THEN /\ mDict' = ParamDict(parName, parValue.array, Len(parValue.array))
                /\ pc' = "locate"
                /\ err' = err
           ELSE /\ Raise("TypeError")
                /\ mDict' = mDict
    /\ UNCHANGED <<mat, num_file, fwdCall, i, out_files, mask, grids, meta,
                   written, result>>

\* line 59: mat['geo'].referencePoint, a KeyError when the record is absent
\* (ReferencePointOrOrigin: a variant that falls back to the origin)
ReferencePointOrOrigin(m) ==
    [ok |-> TRUE,
     point |-> IF "geo" \in DOMAIN m THEN m.geo.referencePoint ELSE <<0, 0>>]
ReferencePoint(m) ==
    IF "geo" \in DOMAIN m
    THEN [ok |-> TRUE, point |-> m.geo.referencePoint]
    ELSE [ok |-> FALSE]

\* lines 58-68
Locate ==
    /\ pc = "locate"
    /\ LET parValue == mat.invResults.optimalmodel
           parName == mat.invResults.model.parName
           ref == ReferencePoint(mat)
           xy == Slice(parValue, 2)
       IN  IF ~ref.ok
           THEN Raise("KeyError") /\ UNCHANGED <<mDict, fwdCall>>
           ELSE IF Len(xy) # 2
           THEN Raise("ValueError") /\ UNCHANGED <<mDict, fwdCall>>
           ELSE LET mX == xy[1]
                    mY == xy[2]
                    call == [lon |-> ref.point[1],
                             lat |-> ref.point[2],
                             az |-> Azimuth(mX, mY),
                             dist2 |-> DistSquared(mX, mY)]
                    tokens == IF Len(parName) = 0 THEN <<>> ELSE Split(parName[1])
                IN  /\ fwdCall' = Append(fwdCall, call)
                    /\ IF tokens = <<>>
                       THEN Raise("IndexError") /\ mDict' = mDict
                       ELSE /\ mDict' = Put(Put(mDict,
                                        tokens[1] \o <<"_", "latitude">>, FwdLat(call)),
                                        tokens[1] \o <<"_", "longitude">>, FwdLon(call))
                            /\ pc' = "loop"
                            /\ err' = err
    /\ UNCHANGED <<mat, num_file, i, out_files, mask, grids, meta, written,
                   result>>

\* line 75: the next record, or line 128: return out_files
LoopHead ==
    /\ pc = "loop"
    /\ IF i <= num_file
       THEN pc' = "read" /\ result' = result
       ELSE pc' = "done" /\ result' = <<out_files>>
    /\ UNCHANGED <<mat, err, num_file, mDict, fwdCall, i, out_files, mask,
                   grids, meta, written>>

\* lines 76-82
ReadMask ==
    /\ pc = "read"
    /\ LET file == mat.insar[i].dataPath
       IN  IF ~file.exists
           THEN Raise("IOError") /\ mask' = mask
           ELSE IF Len(SqueezedShape(file.Mask)) # 2
           THEN Raise("ValueError") /\ mask' = mask
           ELSE /\ mask' = file.Mask
                /\ pc' = "grid"
                /\ err' = err
    /\ UNCHANGED <<mat, num_file, mDict, fwdCall, i, out_files, grids, meta,
                   written, result>>

\* lines 85-94
Reconstruct ==
    /\ pc = "grid"
    /\ LET insarPlot == mat.insarPlot[i]
           length == Len(mask)
           width == Len(mask[1])
           data == AssignMasked(NanGrid(length, width), mask, SqueezeMe(insarPlot.data))
           model == AssignMasked(NanGrid(length, width), mask, SqueezeMe(insarPlot.model))
           residual == AssignMasked(NanGrid(length, width), mask, SqueezeMe(insarPlot.residual))
       IN  /\ out_files' = Append(out_files, OutFile(insarPlot.name))
           /\ IF data.ok /\ model.ok /\ residual.ok
              THEN /\ grids' = [data |-> data.grid, model |-> model.grid,
                                residual |-> residual.grid]
                   /\ pc' = "meta"
                   /\ err' = err
              ELSE /\ Raise("ValueError")
                   /\ grids' = grids
    /\ UNCHANGED <<mat, num_file, mDict, fwdCall, i, mask, meta, written,
                   result>>

\* lines 96-105
PrepareMeta ==
    /\ pc = "meta"
    /\ LET insarPlot == mat.insarPlot[i]
           loaded == mat.insar[i].dataPath.Metadata
       IN  meta' = Update(MinHeightTag(FixedTags(Pop(loaded, KeyFieldnames)),
                                       insarPlot),
                          mDict)
    /\ pc' = "write"
    /\ UNCHANGED <<mat, err, num_file, mDict, fwdCall, i, out_files, mask,
                   grids, written, result>>

\* lines 107-112: writefile.write(dsDict, out_file=out_file, metadata=meta);
\* the writer may fail.
Write ==
    /\ pc = "write"
    /\ \E ok \in BOOLEAN :
         IF ok
         THEN /\ written' = Append(written,
                     [out_file |-> out_files[Len(out_files)],
                      dsDict |-> grids,
                      metadata |-> meta])
              /\ i' = i + 1
              /\ pc' = "loop"
              /\ err' = err
         ELSE /\ Raise("WriteError")
              /\ UNCHANGED <<written, i>>
    /\ UNCHANGED <<mat, num_file, mDict, fwdCall, out_files, mask, grids,
                   meta, result>>

Next ==
    \/ Load
    \/ Params
    \/ Locate
    \/ LoopHead
    \/ ReadMask
    \/ Reconstruct
    \/ PrepareMeta
    \/ Write

-----------------------------------------------------------------------------
(* The containers the runs are made on *)

Container(insar, insarPlot, parValue, parName, hasGeo) ==
    LET inv == [optimalmodel |-> parValue, model |-> [parName |-> parName]]
    IN  IF hasGeo
        THEN [insar |-> insar, insarPlot |-> insarPlot, invResults |-> inv,
              geo |-> [referencePoint |-> <<0, 0>>]]
        ELSE [insar |-> insar, insarPlot |-> insarPlot, invResults |-> inv]

\* the data file a record's dataPath names
DataFile(exists, Mask, keys) ==
    [dataPath |-> [exists |-> exists, Mask |-> Mask,
                   Metadata |-> [k \in keys \cup {KeyFieldnames} |-> [file |-> k]]]]

Values(base, n) == [k \in 1..n |-> base + k]

GoodMask == <<<<1, 0>>, <<0, 1>>>>
GoodFile == DataFile(TRUE, GoodMask, {<<"WIDTH">>})
GoodPlot(name) ==
    [name |-> name, data |-> Values(10, 2), model |-> Values(20, 2),
     residual |-> Values(30, 2)]
GoodParValue == <<1000, 1000>>
GoodParName == <<<<"fault", " ", "X">>, <<"fault", " ", "Y">>>>

RecordNames == {<<"asc">>, <<"dsc">>}
Offsets == {-1000, 0, 1000}

\* the state gbis_mat2hdf5 starts in, on container c
InitWith(c) ==
    /\ mat = c
    /\ pc = "start"
    /\ err = "none"
    /\ num_file = 0
    /\ mDict = EmptyDict
    /\ fwdCall = <<>>
    /\ i = 1
    /\ out_files = <<>>
    /\ mask = <<>>
    /\ grids = [data |-> <<>>, model |-> <<>>, residual |-> <<>>]
    /\ meta = EmptyDict
    /\ written = <<>>
    /\ result = <<>>

\* Spec: any number of records, of parameters, with or without the
\* reference geometry, data files that exist or not, a displacement
\* sequence of the right length or one too long.
ControlParams == [1..2 -> Offsets] \cup {<<x>> : x \in Offsets} \cup {<<>>}
ParValueOf(p, n) == [k \in 1..n |-> IF k <= Len(p) THEN p[k] ELSE 7 * k]
ParNameOf(n) == [k \in 1..n |-> <<"fault", " ", ToString(k)>>]

Init ==
    \E n \in 0..MaxFiles :
      \E ex \in [1..n -> BOOLEAN], nm \in [1..n -> RecordNames],
         extra \in [1..n -> {0, 1}], p \in ControlParams,
         np \in 2..MaxPar, g \in BOOLEAN :
        InitWith(Container(
            [k \in 1..n |-> DataFile(ex[k], GoodMask, {<<"WIDTH">>})],
            [k \in 1..n |-> [GoodPlot(nm[k]) EXCEPT
                               !.data = Values(10, 2 + extra[k])]],
            ParValueOf(p, IF Len(p) < 2 THEN Len(p) ELSE np),
            ParNameOf(IF Len(p) < 2 THEN Len(p) ELSE np),
            g))

Spec == Init /\ [][Next]_vars

\* SpecGrid: two records; the first has any mask of up to MaxDim rows and
\* columns and value sequences of 0, 1, count_nonzero(mask) and one less or
\* one more values.
Lengths(m) ==
    {0, 1, CountNonzero(m), CountNonzero(m) + 1}
      \cup (IF CountNonzero(m) > 0 THEN {CountNonzero(m) - 1} ELSE {})

InitGrid ==
    \E h \in 1..MaxDim, w \in 1..MaxDim :
      \E m \in [1..h -> [1..w -> {0, 1}]] :
        \E ld \in Lengths(m), lm \in Lengths(m), lr \in Lengths(m) :
          InitWith(Container(
              <<DataFile(TRUE, m, {<<"WIDTH">>}), GoodFile>>,
              <<[name |-> <<"asc">>, data |-> Values(10, ld),
                 model |-> Values(20, lm), residual |-> Values(30, lr)],
                GoodPlot(<<"dsc">>)>>,
              GoodParValue, GoodParName, TRUE))

SpecGrid == InitGrid /\ [][Next]_vars

\* SpecMeta: two records; any parameter names, file metadata that holds any
\* of the keys the merge writes, records with and without minHeight.
ParNames ==
    { <<"fault", " ", "X">>, <<"fault", "_", "X">>, <<"fault", " ", "Y">>,
      <<"UNIT">>, <<"MODEL", " ", "MIN", " ", "HEIGHT">>,
      <<"fault", " ", "latitude">> }
FileKeys == { KeyUnit, KeyMinHeight, <<"fault", "_", "X">> }

WithMinHeight(plot, has, h) ==
    IF has
    THEN [name |-> plot.name, data |-> plot.data, model |-> plot.model,
          residual |-> plot.residual, minHeight |-> h]
    ELSE plot

InitMeta ==
    \E n \in 2..MaxMetaPar :
      \E keys \in SUBSET FileKeys, h1 \in BOOLEAN, h2 \in BOOLEAN,
         names \in [1..n -> ParNames] :
        InitWith(Container(
            <<DataFile(TRUE, GoodMask, keys),
              DataFile(TRUE, GoodMask, {<<"WIDTH">>, KeyUnit})>>,
            <<WithMinHeight(GoodPlot(<<"asc">>), h1, 5),
              WithMinHeight(GoodPlot(<<"dsc">>), h2, 6)>>,
            [k \in 1..n |-> IF k <= 2 THEN 1000 ELSE k],
            names, TRUE))

SpecMeta == InitMeta /\ [][Next]_vars

-----------------------------------------------------------------------------
(* Properties *)

\* the mask of record j's data file, and its value sequences as stored
MaskOf(j) == mat.insar[j].dataPath.Mask
PlotOf(j) == mat.insarPlot[j]
NPar == Len(mat.invResults.optimalmodel)
NFile == Len(mat.insar)

\* the non-zero positions of m from (r, c) on, in row-major traversal order
RECURSIVE Traverse(_, _, _)
Traverse(m, r, c) ==
    IF r > Len(m) THEN <<>>
    ELSE IF c > Len(m[r]) THEN Traverse(m, r + 1, 1)
    ELSE (IF m[r][c] # 0 THEN <<<<r, c>>>> ELSE <<>>) \o Traverse(m, r, c + 1)

GridHolds(g, m, V) ==
    LET t == Traverse(m, 1, 1)
    IN  /\ Len(g) = Len(m)
        /\ \A r \in 1..Len(m) : Len(g[r]) = Len(m[r])
        /\ Len(t) = Len(V)
        /\ \A k \in 1..Len(t) : g[t[k][1]][t[k][2]] = Num(V[k])
        /\ \A p \in Positions(m) : m[p[1]][p[2]] = 0 => g[p[1]][p[2]] = NaN
        /\ Cardinality({p \in Positions(m) : ~IsNaN(g[p[1]][p[2]])}) = CountNonzero(m)

GridsHold(ds, j) ==
    /\ Len(PlotOf(j).data) = CountNonzero(MaskOf(j))
         => GridHolds(ds.data, MaskOf(j), PlotOf(j).data)
    /\ Len(PlotOf(j).model) = CountNonzero(MaskOf(j))
         => GridHolds(ds.model, MaskOf(j), PlotOf(j).model)
    /\ Len(PlotOf(j).residual) = CountNonzero(MaskOf(j))
         => GridHolds(ds.residual, MaskOf(j), PlotOf(j).residual)

Mismatch(j) ==
    \E V \in {PlotOf(j).data, PlotOf(j).model, PlotOf(j).residual} :
        Len(V) # CountNonzero(MaskOf(j))

\* Reconstruct has acted on record i: it built the grids, or it raised
ReconstructDone == pc = "meta"
ReconstructFailed == pc = "failed" /\ err = "ValueError" /\ Len(out_files) = i

\* C2: grid reconstruction of a record fails with the shape-mismatch error if
\* and only if one of its value sequences has another length than
\* count_nonzero(mask), a single value included, and then the record is not
\* written.
C2_FailsIffMismatch ==
    /\ ReconstructDone => ~Mismatch(i)
    /\ ReconstructFailed => Mismatch(i) /\ Len(written) = i - 1
    /\ \A j \in 1..Len(written) : ~Mismatch(j)

\* the keys of the global parameter mapping, from the container
GlobalKeys ==
    LET parName == mat.invResults.model.parName
    IN  {Replace(parName[k]) : k \in 1..Len(parName)}
          \cup {Split(parName[1])[1] \o <<"_", "latitude">>,
                Split(parName[1])[1] \o <<"_", "longitude">>}

\* C3: the metadata written for every record maps every key of the global
\* parameter mapping (the normalised parameter names and the two derived
\* keys) to the global mapping's value, whatever else holds that key, and
\* so to the same value in every record.
C3_GlobalWins ==
    /\ pc \in {"loop", "read", "grid", "meta", "write", "done"}
         => DOMAIN mDict = GlobalKeys
    /\ \A j \in 1..Len(written) : \A k \in GlobalKeys :
         /\ k \in DOMAIN written[j].metadata
         /\ written[j].metadata[k] = mDict[k]
         /\ written[j].metadata[k] = written[1].metadata[k]

\* both records written, a global key also in the first record's file
\* metadata and one equal to a fixed tag's key
C3_Witness ==
    /\ Len(written) = 2
    /\ <<"fault", "_", "X">> \in GlobalKeys \cap DOMAIN mat.insar[1].dataPath.Metadata
    /\ KeyUnit \in GlobalKeys \cap DOMAIN mat.insar[1].dataPath.Metadata

DuplicateKeys ==
    LET parName == mat.invResults.model.parName
    IN  \E a, b \in 1..Len(parName) : a # b /\ Replace(parName[a]) = Replace(parName[b])

\* C4: when two parameter names are the same key after normalisation the run
\* fails, writes nothing and builds no global mapping.
C4_DuplicateFails ==
    DuplicateKeys =>
        /\ written = <<>>
        /\ mDict = EmptyDict
        /\ pc \in {"start", "params", "failed"}

Atan2Deg(mx, my) ==
    IF mx = 0 THEN (IF my > 0 THEN 0 ELSE 180)
    ELSE IF my = 0 THEN (IF mx > 0 THEN 90 ELSE 270)
    ELSE IF mx > 0 THEN (IF my > 0 THEN 45 ELSE 135)
    ELSE (IF my > 0 THEN 315 ELSE 225)

\* C7: for offsets other than (0, 0) the azimuth given to the geodesic is
\* the quadrant-aware direction of (mx, my) from north, and the distance is
\* sqrt(mx^2 + my^2); mx = 0, my = 1000 gives azimuth 0 and distance 1000.
C7_QuadrantAwareAzimuth ==
    \A k \in 1..Len(fwdCall) :
        LET mx == mat.invResults.optimalmodel[1]
            my == mat.invResults.optimalmodel[2]
        IN  (mx # 0 \/ my # 0) =>
              /\ ~IsNaN(fwdCall[k].az)
              /\ fwdCall[k].az.val % 360 = Atan2Deg(mx, my)
              /\ fwdCall[k].dist2 = mx * mx + my * my

\* the container has what every step needs
InputOk ==
    /\ "geo" \in DOMAIN mat
    /\ NPar >= 2
    /\ \A j \in 1..NFile : mat.insar[j].dataPath.exists /\ ~Mismatch(j)

ExpectedFiles == [j \in 1..NFile |-> <<"out_dir", "/">> \o PlotOf(j).name \o <<".h5">>]

\* C8: on a container of N >= 1 records, N = 1 included, where no step has
\* reason to fail, the run ends with N writer calls, the j-th for record j,
\* and returns the N file names '<name>.h5' in the input's directory, in
\* input order.
C8_OneFilePerRecord ==
    (NFile >= 1 /\ InputOk /\ pc \in {"done", "failed"} /\ err # "WriteError") =>
        /\ pc = "done"
        /\ Len(written) = NFile
        /\ \A j \in 1..NFile :
             /\ written[j].out_file = ExpectedFiles[j]
             /\ GridsHold(written[j].dsDict, j)
        /\ result = <<ExpectedFiles>>

\* no global key is one of the tags' keys
NoTagIsGlobal ==
    GlobalKeys \cap {KeyUnit, KeyFileType, KeyProcessor, KeyMinHeight} = {}

\* C9 as claimed: the unit tag is "meters", the file type "displacement",
\* the processor "isce", whatever the file metadata holds, unless a global
\* key is one of these; the minimum-height tag is there if and only if the
\* record carries minHeight.
C9_TagsAsClaimed ==
    \A j \in 1..Len(written) :
        (GlobalKeys \cap {KeyUnit, KeyFileType, KeyProcessor} = {}) =>
            /\ written[j].metadata[KeyUnit] = [str |-> "meters"]
            /\ written[j].metadata[KeyFileType] = [str |-> "displacement"]
            /\ written[j].metadata[KeyProcessor] = [str |-> "isce"]
            /\ KeyMinHeight \in DOMAIN written[j].metadata
                 <=> "minHeight" \in DOMAIN PlotOf(j)

\* C9 as amended: the unit tag is "m"; the minimum-height tag holds the
\* record's minHeight when it carries one, and without one is there only if
\* the file metadata holds that key; all unless a global key is one of the
\* four keys.
C9_Tags ==
    \A j \in 1..Len(written) :
        NoTagIsGlobal =>
            /\ written[j].metadata[KeyUnit] = [str |-> "m"]
            /\ written[j].metadata[KeyFileType] = [str |-> "displacement"]
            /\ written[j].metadata[KeyProcessor] = [str |-> "isce"]
            /\ "minHeight" \in DOMAIN PlotOf(j)
                 => /\ KeyMinHeight \in DOMAIN written[j].metadata
                    /\ written[j].metadata[KeyMinHeight] = [num |-> PlotOf(j).minHeight]
            /\ "minHeight" \notin DOMAIN PlotOf(j)
                 => (KeyMinHeight \in DOMAIN written[j].metadata
                       <=> KeyMinHeight \in DOMAIN mat.insar[j].dataPath.Metadata)

\* a record with minHeight whose file metadata holds the unit key and the
\* minimum-height key, and one without minHeight, were written
C9_Witness ==
    /\ Len(written) = 2
    /\ NoTagIsGlobal
    /\ {KeyUnit, KeyMinHeight} \subseteq DOMAIN mat.insar[1].dataPath.Metadata
    /\ "minHeight" \in DOMAIN PlotOf(1)
    /\ "minHeight" \notin DOMAIN PlotOf(2)

\* C10: once a step has failed the run is over: nothing is returned, the
\* records before the failing one are written, in order, and stay so, and
\* neither the failing record nor a later one is tried again or written.
C10_FailFast ==
    err # "none" =>
        /\ pc = "failed"
        /\ result = <<>>
        /\ Len(written) = i - 1
        /\ \A j \in 1..Len(written) : written[j].out_file = ExpectedFiles[j]

\* the second record failed after the first was written
C10_Witness ==
    /\ pc = "failed"
    /\ i = 2
    /\ Len(written) = 1
    /\ NFile = 2

=============================================================================
